---- MODULE Spec2Model ----
(***************************************************************************)
(* Model of create_test_conflict.py: main() drives git through a fixed     *)
(* sequence of run_git_command() calls and filesystem writes.  The state   *)
(* is the filesystem and the repository the script acts on, the script's   *)
(* local variables, its position in main(), and what it has invoked and    *)
(* printed.  Every git invocation may exit non-zero: either because git    *)
(* itself refuses the command in the current repository state (the branch  *)
(* exists, nothing to commit, ...) or for a reason outside the model       *)
(* (stderr "env").                                                         *)
(***************************************************************************)
EXTENDS Integers, Sequences, FiniteSets, TLC

VARIABLES
    pc,              \* position in main(); "returned", "raised", "done" end a run
    run,             \* which invocation of the script this is
    current_branch,  \* local of main()
    short_uuid,      \* local of main()
    repoExists,      \* REPO_PATH.exists()
    gitExists,       \* (REPO_PATH / ".git").exists()
    fileMain,        \* content of REPO_PATH / TEST_FILE
    projDir,         \* ~/.almondcoder/<project-name> exists
    wtFile,          \* worktree directory name -> content of its TEST_FILE
    head,            \* branch checked out in the primary working tree
    branches,        \* branch name -> commit id of its tip
    commits,         \* commit id -> [parent, file, msg, run]
    indexMain,       \* staged TEST_FILE of the primary working tree
    wtIndex,         \* registered worktree name -> staged TEST_FILE
    calls,           \* the git invocations of this run, in order
    errors           \* what run_git_command printed on failures in this run

vars == <<pc, run, current_branch, short_uuid, repoExists, gitExists, fileMain,
          projDir, wtFile, head, branches, commits, indexMain, wtIndex, calls,
          errors>>

fsVars == <<fileMain, projDir, wtFile>>
gitVars == <<head, branches, commits, indexMain, wtIndex>>
envVars == <<repoExists, gitExists>>
localVars == <<current_branch, short_uuid>>

----------------------------------------------------------------------------
(* Bounds *)

MaxRuns == 2
NumUuids == 2

----------------------------------------------------------------------------
(* Constants of the script *)

TEST_FILE == "abc.txt"

NoFile == <<>>

initial_content ==
    << "Line 1: Initial content",
       "Line 2: This will cause a conflict",
       "Line 3: Because both branches will modify this",
       "Line 4: Final line" >>

\* variant: the worktree version leaves line 3 as it was
almond_content_Line2Only ==
    << "Line 1: Initial content",
       "Line 2: ALMONDCODER VERSION - This is the AI's change",
       "Line 3: Because both branches will modify this",
       "Line 4: Final line" >>

almond_content ==
    << "Line 1: Initial content",
       "Line 2: ALMONDCODER VERSION - This is the AI's change",
       "Line 3: ALMONDCODER VERSION - Modified by the assistant",
       "Line 4: Final line" >>

main_content ==
    << "Line 1: Initial content",
       "Line 2: MAIN VERSION - This is the manual change",
       "Line 3: MAIN VERSION - Modified directly on main",
       "Line 4: Final line" >>

MsgInitial == "Add initial abc.txt file"
MsgAlmond == "Modify abc.txt in almondcoder branch"
MsgMain == "Modify abc.txt on main branch (conflicting)"

PrimaryBranches == {"main", "master"}

----------------------------------------------------------------------------
(* str(uuid.uuid4())[:8]: the first eight hex digits of a random uuid *)

HexDigits ==
    <<"0", "1", "2", "3", "4", "5", "6", "7", "8", "9", "a", "b", "c", "d", "e", "f">>

RECURSIVE Hex(_, _)
Hex(n, w) == IF w = 0 THEN "" ELSE Hex(n \div 16, w - 1) \o HexDigits[(n % 16) + 1]

ShortUuids == { Hex(n, 8) : n \in 0 .. (NumUuids - 1) }

AlmondBranch(u) == "almondcoder/test-conflict-" \o u

WorktreeName(u) == "test-conflict-" \o u

\* variant: the base of the worktree is spelled "main" whatever the current branch
main_branch_Literal == "main"

main_branch == current_branch

almond_branch == AlmondBranch(short_uuid)

worktree_path == WorktreeName(short_uuid)

----------------------------------------------------------------------------
(* Function helpers *)

Put(f, k, v) == [x \in (DOMAIN f) \cup {k} |-> IF x = k THEN v ELSE f[x]]

Drop(f, k) == [x \in (DOMAIN f) \ {k} |-> f[x]]

----------------------------------------------------------------------------
(* git, as the script uses it.  Each operator gives the stderr of a command *)
(* git refuses in the current repository state, "" when git accepts it.    *)

TipFile(b) == commits[branches[b]].file

CheckoutErr(b) ==
    IF b \in DOMAIN branches THEN "" ELSE "pathspec did not match"

CommitErr(index, b) ==
    IF index = TipFile(b) THEN "nothing to commit" ELSE ""

WorktreeAddErr(b, path, base) ==
    IF b \in DOMAIN branches THEN "branch already exists"
    ELSE IF path \in DOMAIN wtFile THEN "path already exists"
    ELSE IF path \in DOMAIN wtIndex THEN "missing but already registered worktree"
    ELSE IF base \notin DOMAIN branches THEN "invalid reference"
    ELSE ""

\* the stderr of one invocation: git's own refusal, or a failure from outside
GitErr(envOk, refusal) ==
    IF ~gitExists THEN "not a git repository"
    ELSE IF refusal # "" THEN refusal
    ELSE IF envOk THEN "" ELSE "env"

NewCommit(b, index, msg) ==
    [parent |-> branches[b], file |-> index, msg |-> msg, run |-> run]

----------------------------------------------------------------------------
(* run_git_command: record the invocation; on a non-zero exit print the    *)
(* command and its stderr, then re-raise.                                  *)

run_git_command(cmd, cwd, err) ==
    /\ calls' = Append(calls, [cmd |-> cmd, cwd |-> cwd, err |-> err])
    /\ errors' = IF err = "" THEN errors
                 ELSE Append(errors, [cmd |-> cmd, stderr |-> err])

\* variant: the failure is swallowed and main() goes on
Propagate_Swallow(err, next) == next

\* where main() goes after a call that is not inside a try block
Propagate(err, next) == IF err = "" THEN next ELSE "raised"

\* where main() goes after a call inside try/except
Caught(err, next, handler) == IF err = "" THEN next ELSE handler

Ended == pc \in {"returned", "raised", "done"}

----------------------------------------------------------------------------
(* The state before the script is first run *)

InitBranchSets == (SUBSET {"main", "master", "dev"}) \ {{}}

Init ==
    /\ pc = "check_repo"
    /\ run = 1
    /\ current_branch = ""
    /\ short_uuid = ""
    /\ repoExists \in BOOLEAN
    /\ gitExists \in (IF repoExists THEN BOOLEAN ELSE {FALSE})
    /\ projDir \in BOOLEAN
    /\ \E stale \in SUBSET { WorktreeName(u) : u \in ShortUuids } :
          /\ projDir \/ stale = {}
          /\ wtFile = [d \in stale |-> NoFile]
    /\ wtIndex = << >>
    /\ IF gitExists
       THEN /\ \E bs \in InitBranchSets :
                  /\ branches = [b \in bs |-> 1]
                  /\ head \in bs
            /\ \E f \in {NoFile, initial_content} :
                  /\ commits = << [parent |-> 0, file |-> f, msg |-> "root", run |-> 0] >>
                  /\ fileMain = f
                  /\ indexMain = f
       ELSE /\ branches = << >>
            /\ head = ""
            /\ commits = << >>
            /\ fileMain = NoFile
            /\ indexMain = NoFile
    /\ calls = << >>
    /\ errors = << >>

----------------------------------------------------------------------------
(* main(), step by step *)

\* lines 45-49
CheckRepo ==
    /\ pc = "check_repo"
    /\ pc' = IF ~repoExists THEN "returned" ELSE "check_git"
    /\ UNCHANGED <<run, localVars, envVars, fsVars, gitVars, calls, errors>>

\* variant: the .git check does not return
CheckGit_NoReturn ==
    /\ pc = "check_git"
    /\ pc' = "get_branch"
    /\ UNCHANGED <<run, localVars, envVars, fsVars, gitVars, calls, errors>>

\* lines 51-56
CheckGit ==
    /\ pc = "check_git"
    /\ pc' = IF ~gitExists THEN "returned" ELSE "get_branch"
    /\ UNCHANGED <<run, localVars, envVars, fsVars, gitVars, calls, errors>>

\* lines 59-63
GetBranch ==
    /\ pc = "get_branch"
    /\ \E envOk \in BOOLEAN :
          LET err == GitErr(envOk, "") IN
          /\ run_git_command(<<"git", "branch", "--show-current">>, "repo", err)
          /\ current_branch' = IF err = "" THEN head ELSE current_branch
          /\ pc' = Propagate(err, IF head \notin PrimaryBranches
                                  THEN "checkout_main" ELSE "write_initial")
    /\ UNCHANGED <<run, short_uuid, envVars, fsVars, gitVars>>

\* git checkout <b> in the primary working tree
Checkout(b, err) ==
    IF err = ""
    THEN /\ head' = b
         /\ indexMain' = TipFile(b)
         /\ fileMain' = TipFile(b)
         /\ current_branch' = b
    ELSE UNCHANGED <<head, indexMain, fileMain, current_branch>>

\* lines 64-68
CheckoutMain ==
    /\ pc = "checkout_main"
    /\ \E envOk \in BOOLEAN :
          LET err == GitErr(envOk, CheckoutErr("main")) IN
          /\ run_git_command(<<"git", "checkout", "main">>, "repo", err)
          /\ Checkout("main", err)
          /\ pc' = Caught(err, "write_initial", "checkout_master")
    /\ UNCHANGED <<run, short_uuid, envVars, projDir, wtFile, branches, commits, wtIndex>>

\* variant: the inner except does not return
CheckoutMaster_NoReturn ==
    /\ pc = "checkout_master"
    /\ \E envOk \in BOOLEAN :
          LET err == GitErr(envOk, CheckoutErr("master")) IN
          /\ run_git_command(<<"git", "checkout", "master">>, "repo", err)
          /\ Checkout("master", err)
          /\ pc' = "write_initial"
    /\ UNCHANGED <<run, short_uuid, envVars, projDir, wtFile, branches, commits, wtIndex>>

\* lines 69-74
CheckoutMaster ==
    /\ pc = "checkout_master"
    /\ \E envOk \in BOOLEAN :
          LET err == GitErr(envOk, CheckoutErr("master")) IN
          /\ run_git_command(<<"git", "checkout", "master">>, "repo", err)
          /\ Checkout("master", err)
          /\ pc' = Caught(err, "write_initial", "returned")
    /\ UNCHANGED <<run, short_uuid, envVars, projDir, wtFile, branches, commits, wtIndex>>

\* test_file_path.write_text(content)
WriteMainTree(content, next) ==
    /\ fileMain' = content
    /\ pc' = next
    /\ UNCHANGED <<run, localVars, envVars, projDir, wtFile, gitVars, calls, errors>>

\* variant: a failed add is tried again
AddMainTree_Retry(next) ==
    /\ \E envOk \in BOOLEAN :
          LET err == GitErr(envOk, "") IN
          /\ run_git_command(<<"git", "add", TEST_FILE>>, "repo", err)
          /\ indexMain' = IF err = "" THEN fileMain ELSE indexMain
          /\ pc' = IF err = "" THEN next ELSE pc
    /\ UNCHANGED <<run, localVars, envVars, fsVars, head, branches, commits, wtIndex>>

\* run_git_command(["git", "add", TEST_FILE])
AddMainTree(next) ==
    /\ \E envOk \in BOOLEAN :
          LET err == GitErr(envOk, "") IN
          /\ run_git_command(<<"git", "add", TEST_FILE>>, "repo", err)
          /\ indexMain' = IF err = "" THEN fileMain ELSE indexMain
          /\ pc' = Propagate(err, next)
    /\ UNCHANGED <<run, localVars, envVars, fsVars, head, branches, commits, wtIndex>>

\* run_git_command(["git", "commit", "-m", msg])
CommitMainTree(msg, next) ==
    /\ \E envOk \in BOOLEAN :
          LET err == GitErr(envOk, CommitErr(indexMain, head)) IN
          /\ run_git_command(<<"git", "commit", "-m", msg>>, "repo", err)
          /\ IF err = ""
             THEN /\ commits' = Append(commits, NewCommit(head, indexMain, msg))
                  /\ branches' = [branches EXCEPT ![head] = Len(commits) + 1]
             ELSE UNCHANGED <<commits, branches>>
          /\ pc' = Propagate(err, next)
    /\ UNCHANGED <<run, localVars, envVars, fsVars, head, indexMain, wtIndex>>

\* lines 76-89
WriteInitial == pc = "write_initial" /\ WriteMainTree(initial_content, "add_initial")

\* line 90
AddInitial == pc = "add_initial" /\ AddMainTree("commit_initial")

\* lines 91-92
CommitInitial == pc = "commit_initial" /\ CommitMainTree(MsgInitial, "gen_uuid")

\* lines 95-103
GenUuid ==
    /\ pc = "gen_uuid"
    /\ short_uuid' \in ShortUuids
    /\ pc' = "mkdir"
    /\ UNCHANGED <<run, current_branch, envVars, fsVars, gitVars, calls, errors>>

\* lines 105-109
Mkdir ==
    /\ pc = "mkdir"
    /\ projDir' = TRUE
    /\ pc' = "remove_existing"
    /\ UNCHANGED <<run, localVars, envVars, fileMain, wtFile, gitVars, calls, errors>>

\* lines 111-114
RemoveExisting ==
    /\ pc = "remove_existing"
    /\ wtFile' = IF worktree_path \in DOMAIN wtFile
                 THEN Drop(wtFile, worktree_path) ELSE wtFile
    /\ pc' = "worktree_add"
    /\ UNCHANGED <<run, localVars, envVars, fileMain, projDir, gitVars, calls, errors>>

\* variant: the worktree branch starts one commit before the base tip
WorktreeStart_Parent(base) == commits[branches[base]].parent

\* the commit a new worktree branch starts from
WorktreeStart(base) == branches[base]

\* lines 116-118
WorktreeAdd ==
    /\ pc = "worktree_add"
    /\ \E envOk \in BOOLEAN :
          LET err == GitErr(envOk, WorktreeAddErr(almond_branch, worktree_path, main_branch)) IN
          /\ run_git_command(<<"git", "worktree", "add", "-b", almond_branch,
                               worktree_path, main_branch>>, "repo", err)
          /\ IF err = ""
             THEN /\ branches' = Put(branches, almond_branch, WorktreeStart(main_branch))
                  /\ wtFile' = Put(wtFile, worktree_path, commits[WorktreeStart(main_branch)].file)
                  /\ wtIndex' = Put(wtIndex, worktree_path, commits[WorktreeStart(main_branch)].file)
             ELSE UNCHANGED <<branches, wtFile, wtIndex>>
          /\ pc' = Propagate(err, "write_almond")
    /\ UNCHANGED <<run, localVars, envVars, fileMain, projDir, head, commits, indexMain>>

\* lines 120-129
WriteAlmond ==
    /\ pc = "write_almond"
    /\ wtFile' = Put(wtFile, worktree_path, almond_content)
    /\ pc' = "add_almond"
    /\ UNCHANGED <<run, localVars, envVars, fileMain, projDir, gitVars, calls, errors>>

\* line 130
AddAlmond ==
    /\ pc = "add_almond"
    /\ \E envOk \in BOOLEAN :
          LET err == GitErr(envOk, "") IN
          /\ run_git_command(<<"git", "add", TEST_FILE>>, worktree_path, err)
          /\ wtIndex' = IF err = ""
                        THEN Put(wtIndex, worktree_path, wtFile[worktree_path])
                        ELSE wtIndex
          /\ pc' = Propagate(err, "commit_almond")
    /\ UNCHANGED <<run, localVars, envVars, fsVars, head, branches, commits, indexMain>>

\* lines 131-132
CommitAlmond ==
    /\ pc = "commit_almond"
    /\ \E envOk \in BOOLEAN :
          LET err == GitErr(envOk, CommitErr(wtIndex[worktree_path], almond_branch)) IN
          /\ run_git_command(<<"git", "commit", "-m", MsgAlmond>>, worktree_path, err)
          /\ IF err = ""
             THEN /\ commits' = Append(commits,
                                  NewCommit(almond_branch, wtIndex[worktree_path], MsgAlmond))
                  /\ branches' = [branches EXCEPT ![almond_branch] = Len(commits) + 1]
             ELSE UNCHANGED <<commits, branches>>
          /\ pc' = Propagate(err, "write_main")
    /\ UNCHANGED <<run, localVars, envVars, fsVars, head, indexMain, wtIndex>>

\* variant: the conflicting change on the base branch is left out
WriteMain_Skipped ==
    /\ pc = "write_main"
    /\ pc' = "summary"
    /\ UNCHANGED <<run, localVars, envVars, fsVars, gitVars, calls, errors>>

\* lines 134-143
WriteMain == pc = "write_main" /\ WriteMainTree(main_content, "add_main")

\* line 144
AddMain == pc = "add_main" /\ AddMainTree("commit_main")

\* lines 145-146
CommitMain == pc = "commit_main" /\ CommitMainTree(MsgMain, "summary")

\* lines 148-168
Summary ==
    /\ pc = "summary"
    /\ pc' = "done"
    /\ UNCHANGED <<run, localVars, envVars, fsVars, gitVars, calls, errors>>

\* lines 171-172: the script is run again, on the state the last run left
RunAgain ==
    /\ Ended
    /\ run < MaxRuns
    /\ run' = run + 1
    /\ pc' = "check_repo"
    /\ current_branch' = ""
    /\ short_uuid' = ""
    /\ calls' = << >>
    /\ errors' = << >>
    /\ UNCHANGED <<envVars, fsVars, gitVars>>

Next ==
    \/ CheckRepo
    \/ CheckGit
    \/ GetBranch
    \/ CheckoutMain
    \/ CheckoutMaster
    \/ WriteInitial
    \/ AddInitial
    \/ CommitInitial
    \/ GenUuid
    \/ Mkdir
    \/ RemoveExisting
    \/ WorktreeAdd
    \/ WriteAlmond
    \/ AddAlmond
    \/ CommitAlmond
    \/ WriteMain
    \/ AddMain
    \/ CommitMain
    \/ Summary
    \/ RunAgain

Spec == Init /\ [][Next]_vars

----------------------------------------------------------------------------
(* Vocabulary of the properties *)

RECURSIVE Ancestors(_)
Ancestors(c) == IF c = 0 THEN {} ELSE {c} \cup Ancestors(commits[c].parent)

\* the commits a branch holds
History(b) == Ancestors(branches[b])

\* the commits this run of the script created
NewCommits == { c \in 1 .. Len(commits) : commits[c].run = run }

LastCall == calls[Len(calls)]

Failed(i) == calls[i].err # ""

CallBranch == [cmd |-> <<"git", "branch", "--show-current">>, cwd |-> "repo", err |-> ""]

\* what a run that got past branch resolution invokes when no command fails
FixedSequence ==
    << [cmd |-> <<"git", "add", TEST_FILE>>, cwd |-> "repo", err |-> ""],
       [cmd |-> <<"git", "commit", "-m", MsgInitial>>, cwd |-> "repo", err |-> ""],
       [cmd |-> <<"git", "worktree", "add", "-b", almond_branch, worktree_path, head>>,
        cwd |-> "repo", err |-> ""],
       [cmd |-> <<"git", "add", TEST_FILE>>, cwd |-> worktree_path, err |-> ""],
       [cmd |-> <<"git", "commit", "-m", MsgAlmond>>, cwd |-> worktree_path, err |-> ""],
       [cmd |-> <<"git", "add", TEST_FILE>>, cwd |-> "repo", err |-> ""],
       [cmd |-> <<"git", "commit", "-m", MsgMain>>, cwd |-> "repo", err |-> ""] >>

\* the run started on main or master: the branch query is followed by no checkout
StartedOnPrimary ==
    /\ Len(calls) >= 1
    /\ calls[1] = CallBranch
    /\ \A i \in 1 .. Len(calls) : calls[i].cmd[2] # "checkout"

BeforeWorktree == pc \in {"gen_uuid", "mkdir", "remove_existing", "worktree_add"}
InWorktree == pc \in {"write_almond", "add_almond", "commit_almond"}
BackOnBase == pc \in {"write_main", "add_main", "commit_main"}
Finished == pc \in {"summary", "done"}

----------------------------------------------------------------------------
(* C1: a run on main or master in which every git command succeeds makes,  *)
(* in this order, exactly one new commit on the base branch, then the new  *)
(* branch almondcoder/test-conflict-<token> with its working tree at that  *)
(* commit, then exactly one new commit on that branch, then exactly one    *)
(* further commit on the base branch; the base branch ends with two new    *)
(* commits and the feature branch with one commit of its own.              *)

C1_Stages ==
    StartedOnPrimary =>
      /\ BeforeWorktree =>
            /\ Cardinality(NewCommits) = 1
            /\ NewCommits = {branches[head]}
            /\ commits[branches[head]].msg = MsgInitial
      /\ InWorktree =>
            /\ Cardinality(NewCommits) = 1
            /\ almond_branch \in DOMAIN branches
            /\ branches[almond_branch] = branches[head]
            /\ NewCommits = {branches[head]}
            /\ worktree_path \in DOMAIN wtFile
            /\ worktree_path \in DOMAIN wtIndex
      /\ BackOnBase =>
            /\ Cardinality(NewCommits) = 2
            /\ NewCommits = {branches[head], branches[almond_branch]}
            /\ commits[branches[almond_branch]].parent = branches[head]
            /\ commits[branches[almond_branch]].msg = MsgAlmond
      /\ Finished =>
            /\ almond_branch = "almondcoder/test-conflict-" \o short_uuid
            /\ short_uuid \in ShortUuids
            /\ Len(short_uuid) = 8
            /\ calls = <<CallBranch>> \o FixedSequence
            /\ Cardinality(NewCommits \cap History(head)) = 2
            /\ Cardinality(NewCommits \cap (History(almond_branch) \ History(head))) = 1
            /\ commits[branches[head]].msg = MsgMain
            /\ commits[commits[branches[head]].parent].msg = MsgInitial
            /\ commits[branches[head]].parent < branches[almond_branch]
            /\ branches[almond_branch] < branches[head]

\* the feature branch does not exist before the worktree step and does after it
C1_BranchIsNew ==
    (pc = "worktree_add" /\ pc' = "write_almond") =>
        /\ almond_branch \notin DOMAIN branches
        /\ almond_branch' \in DOMAIN branches'
        /\ commits' = commits

\* C1: every stage of a successful run on main or master is as described, and
\* the feature branch is new when the worktree step creates it
C1_OneRun == [] C1_Stages /\ [][C1_BranchIsNew]_vars

C1_Witness == pc = "done" /\ StartedOnPrimary /\ Len(calls) = 8

----------------------------------------------------------------------------
(* C2 as stated: a successful run creates four new commits in total.       *)

C2_FourCommits == pc = "done" => Cardinality(NewCommits) = 4

(* C2 amended: a successful run creates three new commits in total, two on *)
(* the base branch and one on the feature branch; the first of them is in  *)
(* the history of both branches, so each branch gains two commits.         *)

C2_ThreeCommits ==
    pc = "done" =>
      /\ Cardinality(NewCommits) = 3
      /\ NewCommits \subseteq History(head) \cup History(almond_branch)
      /\ Cardinality(NewCommits \cap History(head)) = 2
      /\ Cardinality(NewCommits \cap History(almond_branch)) = 2
      /\ Cardinality(NewCommits \cap History(head) \cap History(almond_branch)) = 1

C2_Witness == pc = "done" /\ Cardinality(NewCommits) = 3 /\ run = 1

----------------------------------------------------------------------------
(* C3: after a successful run the tips of the feature branch and of the    *)
(* base branch are distinct commits, both children of the run's initial    *)
(* fixture commit, which is their latest common ancestor: the feature      *)
(* branch was cut after the initial commit and before the base branch's    *)
(* divergent commit.                                                       *)

MergeBase(a, b) ==
    CHOOSE c \in Ancestors(a) \cap Ancestors(b) :
        \A d \in Ancestors(a) \cap Ancestors(b) : d <= c

\* C3: both tips are children of the run's initial commit, their merge base
C3_CommonParent ==
    pc = "done" =>
      LET feat == branches[almond_branch]
          base == branches[head]
          first == commits[feat].parent
      IN  /\ feat # base
          /\ commits[base].parent = first
          /\ first \in NewCommits
          /\ commits[first].msg = MsgInitial
          /\ commits[feat].msg = MsgAlmond
          /\ commits[base].msg = MsgMain
          /\ MergeBase(feat, base) = first
          /\ first < feat /\ feat < base

C3_Witness ==
    /\ pc = "done"
    /\ branches[almond_branch] # branches[head]
    /\ MergeBase(branches[almond_branch], branches[head]) \in NewCommits

----------------------------------------------------------------------------
(* C4: after a successful run the fixture file at the base tip and at the  *)
(* feature tip both have four lines, agree on lines 1 and 4 and differ on  *)
(* lines 2 and 3; each also differs from the initially committed content   *)
(* on lines 2 and 3 and equals it on lines 1 and 4.                        *)

SameOuterLines(f, g) ==
    /\ Len(f) = 4 /\ Len(g) = 4
    /\ f[1] = g[1] /\ f[4] = g[4]
    /\ f[2] # g[2] /\ f[3] # g[3]

\* C4: the tips' files agree on lines 1 and 4 and differ on lines 2 and 3,
\* from each other and from the initial content
C4_ConflictingLines ==
    pc = "done" =>
      LET featFile == TipFile(almond_branch)
          baseFile == TipFile(head)
          firstFile == commits[commits[branches[head]].parent].file
      IN  /\ SameOuterLines(baseFile, featFile)
          /\ SameOuterLines(baseFile, firstFile)
          /\ SameOuterLines(featFile, firstFile)
          /\ firstFile = commits[commits[branches[almond_branch]].parent].file

C4_Witness ==
    /\ pc = "done"
    /\ TipFile(almond_branch) # TipFile(head)
    /\ Len(TipFile(almond_branch)) = 4

----------------------------------------------------------------------------
(* C5: if the target directory does not exist, or exists without a .git    *)
(* entry, main() invokes no git command, writes no fixture file, creates   *)
(* no directory under ~/.almondcoder and returns normally: no step of the  *)
(* script changes the filesystem or the repository.                        *)

PreconditionFails == ~repoExists \/ ~gitExists

C5_NothingInvoked ==
    PreconditionFails =>
      /\ pc \in {"check_repo", "check_git", "returned"}
      /\ calls = << >>
      /\ errors = << >>

C5_NothingTouched ==
    PreconditionFails => UNCHANGED <<fsVars, gitVars, envVars>>

\* C5: a failed precondition means nothing invoked and nothing touched
C5_FailFast == [] C5_NothingInvoked /\ [][C5_NothingTouched]_vars

C5_Witness == pc = "returned" /\ repoExists /\ ~gitExists /\ run = MaxRuns

----------------------------------------------------------------------------
(* C6: if the current branch is neither main nor master and `checkout      *)
(* main` and then `checkout master` both fail, main() returns normally,    *)
(* having invoked nothing else, before the fixture file is written, staged *)
(* or committed and before any branch or worktree is created.              *)

BothCheckoutsFailed ==
    \E i, j \in 1 .. Len(calls) :
        /\ calls[i].cmd = <<"git", "checkout", "main">> /\ Failed(i)
        /\ calls[j].cmd = <<"git", "checkout", "master">> /\ Failed(j)

C6_ReturnsEarly ==
    BothCheckoutsFailed =>
      /\ pc = "returned"
      /\ Len(calls) = 3
      /\ calls[1] = CallBranch
      /\ calls[2].cmd = <<"git", "checkout", "main">>
      /\ calls[3].cmd = <<"git", "checkout", "master">>
      /\ NewCommits = {}
      /\ short_uuid = ""
      /\ current_branch \notin PrimaryBranches
      /\ head = current_branch

\* the steps of such a run leave the fixture file, the index, the commits,
\* the branches, the worktrees and ~/.almondcoder as they were
C6_ResolutionFrame ==
    (/\ pc \in {"check_repo", "check_git", "get_branch", "checkout_main", "checkout_master"}
     /\ pc' \in {"check_git", "get_branch", "checkout_main", "checkout_master", "returned"})
      => UNCHANGED <<fsVars, gitVars>>

\* C6: two failed checkouts mean a normal return before any fixture step
C6_AbortBeforeFixture == [] C6_ReturnsEarly /\ [][C6_ResolutionFrame]_vars

C6_Witness == BothCheckoutsFailed /\ pc = "returned" /\ "master" \in DOMAIN branches

----------------------------------------------------------------------------
(* C7 as stated: for every git invocation made by main(), a non-zero exit  *)
(* is printed and propagated, and no later step of main() is executed.     *)

Printed(i) ==
    \E k \in 1 .. Len(errors) :
        errors[k] = [cmd |-> calls[i].cmd, stderr |-> calls[i].err]

\* C7 as stated: every failed invocation is printed, is the last one, and has
\* been propagated
C7_EveryFailureAborts ==
    \A i \in 1 .. Len(calls) :
        Failed(i) => /\ Printed(i)
                     /\ i = Len(calls)
                     /\ pc = "raised"

(* C7 amended: every git command that exits non-zero has its command and   *)
(* stderr printed.  For every invocation other than the two checkouts of   *)
(* branch resolution the failure propagates out of main() and no later     *)
(* step runs.  A failed `checkout main` is caught and the next step is     *)
(* `checkout master`, after which the run goes on if that succeeds; a      *)
(* failed `checkout master` is caught and main() returns normally with no  *)
(* later step.                                                             *)

C7_FailureHandling ==
    /\ Len(errors) = Cardinality({ i \in 1 .. Len(calls) : Failed(i) })
    /\ \A i \in 1 .. Len(calls) :
          Failed(i) =>
            /\ Printed(i)
            /\ IF calls[i].cmd = <<"git", "checkout", "main">>
               THEN \/ i = Len(calls) /\ pc = "checkout_master"
                    \/ /\ i < Len(calls)
                       /\ calls[i + 1].cmd = <<"git", "checkout", "master">>
                       /\ pc # "checkout_master"
               ELSE IF calls[i].cmd = <<"git", "checkout", "master">>
               THEN i = Len(calls) /\ pc = "returned"
               ELSE i = Len(calls) /\ pc = "raised"

C7_Witness ==
    /\ pc = "raised"
    /\ Len(calls) >= 5
    /\ Failed(2)
    /\ LastCall.cmd[2] = "worktree"

----------------------------------------------------------------------------
(* C8 as stated: running main() twice in succession on the same repository *)
(* produces two distinct feature branches with distinct tokens, and the    *)
(* second run does not fail at the worktree step because of what the first *)
(* run left behind.                                                        *)

FeatureBranches == { b \in DOMAIN branches : b \notin {"main", "master", "dev"} }

\* a run with this number went through to its last commit
RunCompleted(r) ==
    \E c \in 1 .. Len(commits) : commits[c].run = r /\ commits[c].msg = MsgMain

RefusedByGit == LastCall.err \notin {"", "env"}

\* C8 as stated: the second of two runs is not refused at the worktree step,
\* and when it is through there are two feature branches
C8_TwoRunsTwoBranches ==
    (run = 2 /\ RunCompleted(1)) =>
      /\ (pc = "raised" /\ LastCall.cmd[2] = "worktree") => ~RefusedByGit
      /\ pc = "done" => Cardinality(FeatureBranches) = 2

----------------------------------------------------------------------------
(* C9 as stated: a directory already at the computed worktree path is      *)
(* deleted before `git worktree add` is invoked, so a run that computes    *)
(* the path an earlier run created its worktree at (it drew that run's     *)
(* token) is not refused worktree creation.                                *)

\* an earlier run created its worktree at the path this run computed
PathUsedBefore == short_uuid # "" /\ worktree_path \in DOMAIN wtIndex

----------------------------------------------------------------------------
(* C10: no retry and no rollback.  When a git command of the fixed         *)
(* sequence fails, the effects of the steps completed before it are all in *)
(* place, the failed command is the last one invoked, and nothing of any   *)
(* later step has happened; the state then stays as it is.                 *)

Cmd(k) == FixedSequence[k].cmd

FailedAt(k) ==
    /\ pc = "raised"
    /\ LastCall.cmd = Cmd(k)
    /\ LastCall.cwd = FixedSequence[k].cwd
    /\ Cardinality(NewCommits) = (IF k <= 2 THEN 0 ELSE IF k <= 5 THEN 1 ELSE 2)

InitialCommitted ==
    /\ Cardinality(NewCommits) >= 1
    /\ \E c \in NewCommits : commits[c].msg = MsgInitial /\ commits[c].file = initial_content

WorktreeCreated ==
    /\ projDir
    /\ almond_branch \in DOMAIN branches
    /\ worktree_path \in DOMAIN wtFile
    /\ worktree_path \in DOMAIN wtIndex

AlmondCommitted ==
    /\ commits[branches[almond_branch]].msg = MsgAlmond
    /\ commits[branches[almond_branch]].file = almond_content
    /\ branches[almond_branch] \in NewCommits

C10_EffectsStay ==
    /\ FailedAt(1) => /\ fileMain = initial_content
                      /\ short_uuid = ""
    /\ FailedAt(2) => /\ fileMain = initial_content
                      /\ indexMain = initial_content
                      /\ short_uuid = ""
    /\ FailedAt(3) => /\ InitialCommitted
                      /\ fileMain = initial_content
                      /\ NewCommits = {branches[head]}
                      /\ projDir
                      /\ worktree_path \notin DOMAIN wtFile
    /\ FailedAt(4) => /\ InitialCommitted
                      /\ WorktreeCreated
                      /\ wtFile[worktree_path] = almond_content
                      /\ wtIndex[worktree_path] = initial_content
                      /\ branches[almond_branch] = branches[head]
                      /\ fileMain = initial_content
    /\ FailedAt(5) => /\ InitialCommitted
                      /\ WorktreeCreated
                      /\ wtFile[worktree_path] = almond_content
                      /\ wtIndex[worktree_path] = almond_content
                      /\ branches[almond_branch] = branches[head]
                      /\ fileMain = initial_content
    /\ FailedAt(6) => /\ InitialCommitted
                      /\ WorktreeCreated
                      /\ AlmondCommitted
                      /\ fileMain = main_content
                      /\ indexMain = initial_content
                      /\ commits[branches[head]].msg = MsgInitial
    /\ FailedAt(7) => /\ InitialCommitted
                      /\ WorktreeCreated
                      /\ AlmondCommitted
                      /\ fileMain = main_content
                      /\ indexMain = main_content
                      /\ commits[branches[head]].msg = MsgInitial

\* a propagated failure is of the last command invoked, which is not invoked again
C10_NoRetry ==
    /\ pc = "raised" => /\ Len(calls) >= 1
                        /\ Failed(Len(calls))
                        /\ \E k \in 1 .. 7 : FailedAt(k) \/ LastCall = [CallBranch EXCEPT !.err = LastCall.err]
    /\ \A i \in 1 .. Len(calls) :
          (Failed(i) /\ calls[i].cmd[2] # "checkout") => (i = Len(calls) /\ pc = "raised")

\* once the failure has propagated, the script changes nothing more
C10_Frozen ==
    pc = "raised" => /\ pc' = "check_repo"
                     /\ UNCHANGED <<fsVars, gitVars, envVars>>

\* C10: the effects before a failed command stay, the command is not retried,
\* and nothing happens after the failure has propagated
C10_NoRetryNoRollback == [] (C10_EffectsStay /\ C10_NoRetry) /\ [][C10_Frozen]_vars

C10_Witness ==
    /\ FailedAt(6)
    /\ AlmondCommitted
    /\ fileMain = main_content

====
